---- MODULE Spec2Model ----
(***************************************************************************)
(* ISAC services architecture: Exposure Function (edge gateway), Sensing   *)
(* Control Function (SeCF), Resource Allocation Function (RAF), Sensing    *)
(* Unit (SU) and Sensing Processing Function (SPF).                        *)
(*                                                                         *)
(* Every service is a FastAPI application whose handlers are plain `def`   *)
(* functions: the framework runs them on a thread pool, so several         *)
(* requests execute handle_sensing_request at the same time and share the  *)
(* module global CURRENT_TOPOLOGY.  The handler takes no lock, so the      *)
(* model makes each access to the global one step.  The calls SeCF makes   *)
(* to RAF (and RAF to the units) and to SPF touch no shared state and are  *)
(* modelled whole inside the SeCF step that issues them.                   *)
(*                                                                         *)
(* uncertaintyPercent values are modelled as integer percentages; the mean *)
(* avg_unc = sum/len is kept as the exact fraction in lowest terms.        *)
(***************************************************************************)
EXTENDS Integers, Sequences, FiniteSets, TLC

(* ---------------------------- bounds ----------------------------------- *)
MaxConc == 2
MaxIssued == 3
MaxSamples == 2

(* ------------------------- program constants --------------------------- *)
THRESHOLD == 40
TIMEOUT_SECF == 20
TIMEOUT_SPF == 20
MinMode == 1
MaxMode == 3

Reqs == 1..MaxConc
Modes == MinMode..MaxMode
Clients == {"client-A", "client-B", "client-X"}
Areas == {"room-101", "room-102"}
(* uncertaintyPercent values SeCF reads from SPF's answer: one on each side *)
(* of the threshold; their means over 1, 2 and 4 results are 10, 25, 40,   *)
(* 55 and 70.                                                              *)
Uncertainties == {10, 70}
Topologies == {"monostatic", "multistatic"}

(* AUTHZ = AuthorizationService(allowed_areas_by_client = {...})           *)
AllowedAreasByClient ==
  [c \in {"client-A", "client-B"} |->
     IF c = "client-A" THEN <<"room-101">> ELSE <<"room-101", "room-102">>]

(* The registry shipped with the repository, and a registry extended the   *)
(* way the source invites ("You can add more SUs here later"): a second    *)
(* and third unit, the third covering the same area as the first.          *)
ShippedConfig == << [suId |-> "SU-1", areaId |-> "room-101"] >>
ExtendedConfig == << [suId |-> "SU-1", areaId |-> "room-101"],
                     [suId |-> "SU-2", areaId |-> "room-102"],
                     [suId |-> "SU-3", areaId |-> "room-101"] >>
Configs == {ShippedConfig, ExtendedConfig}

VARIABLES
  CURRENT_TOPOLOGY,   \* secf_service.CURRENT_TOPOLOGY
  allowed,            \* exposure_service.AUTHZ._allowed
  SUS_CONFIG,         \* raf_service.SUS_CONFIG
  req,                \* per request: clientId, areaId of the edge request
  payload,            \* per request: secf_payload / raf_payload
  edgePc,             \* per request: position in detect_human_presence
  secfPc,             \* per request: position in handle_sensing_request
  frames,             \* per request: csi_data["frames"]
  results,            \* per request: results (uncertaintyPercent of each)
  snap,               \* per request: value of CURRENT_TOPOLOGY read by the rule
  topology_switched,  \* per request: local topology_switched
  secfResp,           \* per request: response of handle_sensing_request
  edgeResp,           \* per request: response of detect_human_presence
  hops,               \* per request: history of the calls made for it
  suCalls,            \* per request: history, the unit calls RAF made
  health,             \* currentTopology in the /healthz response being sent
  spfOut,             \* per request: history, what the call to SPF gave
  pre,                \* per request: CURRENT_TOPOLOGY when avg_unc was computed
  writes,             \* per request: history, number of writes to the global
  nChanges,           \* history: number of changes of CURRENT_TOPOLOGY's value
  nSwitched,          \* history: number of responses with topologySwitched
  issued,             \* number of requests received so far
  log                 \* history: decisions, in order of their responses

vars == << CURRENT_TOPOLOGY, allowed, SUS_CONFIG, req, payload, edgePc, secfPc, frames,
           results, snap, topology_switched, secfResp, edgeResp, hops,
           suCalls, health, spfOut, pre, writes, nChanges, nSwitched, issued, log >>

NoReq == [clientId |-> "", areaId |-> ""]
NoPayload == [areaId |-> "", numSamples |-> 0, suMode |-> 0]
NoResp == [status |-> 0, detail |-> "", topologySwitched |-> FALSE,
           currentTopology |-> "", results |-> << >>]

Failure(code, why) == [status |-> code, detail |-> why,
                       topologySwitched |-> FALSE, currentTopology |-> "",
                       results |-> << >>]

Range(s) == {s[i] : i \in 1..Len(s)}

RECURSIVE SumSeq(_)
SumSeq(s) == IF s = << >> THEN 0 ELSE Head(s) + SumSeq(Tail(s))

CallReturns_notimeout(answers, timeout) == answers

(* requests.post(url, json=..., timeout=t): the call returns when the peer *)
(* answers, and raises after t seconds when it does not.                   *)
CallReturns(answers, timeout) == answers \/ timeout > 0

(* ------------------------- exposure_service ---------------------------- *)

(* AuthorizationService.__init__: lists of areas become sets.              *)
AuthorizationService(allowed_areas_by_client) ==
  [cid \in DOMAIN allowed_areas_by_client |->
     Range(allowed_areas_by_client[cid])]

check_known_client(tbl, client_id, area_id) == client_id \in DOMAIN tbl

(* AuthorizationService.check: TRUE when it returns, FALSE when it raises  *)
(* PermissionError.  _allowed.get(client_id) is None for an unknown client.*)
check(tbl, client_id, area_id) ==
  IF client_id \notin DOMAIN tbl THEN FALSE
  ELSE area_id \in tbl[client_id]

EdgeAdmits_always(tbl, client_id, area_id) == TRUE

(* try: AUTHZ.check(...) except PermissionError: raise HTTPException(403)  *)
EdgeAdmits(tbl, client_id, area_id) == check(tbl, client_id, area_id)

(* ----------------------------- su_service ------------------------------ *)

(* get_csi: numFrames frames, generated one after the other by this unit.  *)
(* A frame is identified by the unit and its position in generation order; *)
(* its samples are not modelled.                                           *)
get_csi(su_id, mode, numFrames) ==
  [k \in 1..numFrames |-> [suId |-> su_id, seq |-> k]]

(* ----------------------------- raf_service ----------------------------- *)

sus_for_area_all(cfg, area_id) == cfg

sus_for_area(cfg, area_id) ==
  SelectSeq(cfg, LAMBDA su : su.areaId = area_id)

RECURSIVE agg_loop_prepend(_, _, _, _, _, _, _)
agg_loop_prepend(sus, i, mode, n, down, all_frames, called) ==
  IF i > Len(sus)
  THEN [status |-> 200, frames |-> all_frames, called |-> called]
  ELSE IF sus[i].suId \in down
       THEN [status |-> 500, frames |-> << >>,
             called |-> Append(called, [suId |-> sus[i].suId, ok |-> FALSE])]
       ELSE agg_loop_prepend(sus, i + 1, mode, n, down,
                             get_csi(sus[i].suId, mode, n) \o all_frames,
                             Append(called, [suId |-> sus[i].suId, ok |-> TRUE]))

(* The loop of get_measurements over the covering units, in list order.    *)
(* `down` is the set of units whose call raises (timeout, bad status).     *)
(* The exception is not caught: the loop stops and RAF answers 500.        *)
RECURSIVE agg_loop(_, _, _, _, _, _, _)
agg_loop(sus, i, mode, n, down, all_frames, called) ==
  IF i > Len(sus)
  THEN [status |-> 200, frames |-> all_frames, called |-> called]
  ELSE IF sus[i].suId \in down
       THEN [status |-> 500, frames |-> << >>,
             called |-> Append(called, [suId |-> sus[i].suId, ok |-> FALSE])]
       ELSE agg_loop(sus, i + 1, mode, n, down,
                     all_frames \o get_csi(sus[i].suId, mode, n),
                     Append(called, [suId |-> sus[i].suId, ok |-> TRUE]))

get_measurements_partial(cfg, area_id, mode, n, down) ==
  LET sus == SelectSeq(sus_for_area(cfg, area_id),
                       LAMBDA su : su.suId \notin down)
  IN  IF sus = << >>
      THEN [status |-> 404, frames |-> << >>, called |-> << >>]
      ELSE agg_loop(sus, 1, mode, n, down, << >>, << >>)

(* get_measurements: 404 when no unit is registered for the area, else the *)
(* loop over the covering units.                                           *)
get_measurements(cfg, area_id, mode, n, down) ==
  LET sus == sus_for_area(cfg, area_id)
  IN  IF sus = << >>
      THEN [status |-> 404, frames |-> << >>, called |-> << >>]
      ELSE agg_loop(sus, 1, mode, n, down, << >>, << >>)

(* ----------------------------- spf_service ----------------------------- *)

process_csi_skip(fs, unc) ==
  [i \in 1..(Len(fs) - 1) |->
     [of |-> fs[i + 1], uncertaintyPercent |-> unc[i + 1]]]

(* process_csi: one result per frame, in the order of the frames.  unc[i]  *)
(* is the classifier's uncertainty for frame i.                            *)
process_csi(fs, unc) ==
  [i \in 1..Len(fs) |-> [of |-> fs[i], uncertaintyPercent |-> unc[i]]]

(* ----------------------------- secf_service ---------------------------- *)

RafFailed_never(status) == FALSE

(* r_raf.raise_for_status() inside try/except: any status other than 2xx   *)
(* becomes HTTPException(500, "RAF error").                                *)
RafFailed(status) == status # 200

AboveThreshold_ge(avg) == avg.num >= THRESHOLD * avg.den

(* avg_unc > 40.0                                                          *)
AboveThreshold(avg) == avg.num > THRESHOLD * avg.den

TargetTopology_multi(avg) == "multistatic"

(* The topology the rule asks for.                                         *)
TargetTopology(avg) ==
  IF AboveThreshold(avg) THEN "multistatic" ELSE "monostatic"

NeedsSwitch_always(current, avg) == TRUE

(* CURRENT_TOPOLOGY != "multistatic" / CURRENT_TOPOLOGY != "monostatic"    *)
NeedsSwitch(current, avg) == current # TargetTopology(avg)

NoResults_never(rs) == FALSE

(* if not results                                                          *)
NoResults(rs) == rs = << >>

UncSum(rs) == SumSeq([i \in 1..Len(rs) |-> rs[i].uncertaintyPercent])

RECURSIVE GCD(_, _)
GCD(a, b) == IF b = 0 THEN a ELSE GCD(b, a % b)

(* avg_unc = sum(r.uncertaintyPercent for r in results) / len(results)     *)
Avg(rs) ==
  IF rs = << >> THEN [num |-> 0, den |-> 1]
  ELSE LET g == GCD(UncSum(rs), Len(rs))
       IN  [num |-> UncSum(rs) \div g, den |-> Len(rs) \div g]

UnitIds(cfg) == {cfg[i].suId : i \in 1..Len(cfg)}

TypeOK ==
  /\ CURRENT_TOPOLOGY \in Topologies
  /\ SUS_CONFIG \in Configs
  /\ edgePc \in [Reqs -> {"idle", "wait", "done"}]
  /\ secfPc \in [Reqs -> {"none", "raf", "spf", "decide", "write",
                          "respond", "done", "hung"}]
  /\ health \in Topologies \cup {""}
  /\ issued \in 0..MaxIssued
  /\ nChanges \in 0..MaxIssued
  /\ nSwitched \in 0..MaxIssued
  /\ Len(log) <= MaxIssued

Init ==
  /\ CURRENT_TOPOLOGY = "monostatic"
  /\ allowed = AuthorizationService(AllowedAreasByClient)
  /\ SUS_CONFIG \in Configs
  /\ req = [r \in Reqs |-> NoReq]
  /\ payload = [r \in Reqs |-> NoPayload]
  /\ edgePc = [r \in Reqs |-> "idle"]
  /\ secfPc = [r \in Reqs |-> "none"]
  /\ frames = [r \in Reqs |-> << >>]
  /\ results = [r \in Reqs |-> << >>]
  /\ snap = [r \in Reqs |-> ""]
  /\ topology_switched = [r \in Reqs |-> FALSE]
  /\ secfResp = [r \in Reqs |-> NoResp]
  /\ edgeResp = [r \in Reqs |-> NoResp]
  /\ hops = [r \in Reqs |-> << >>]
  /\ suCalls = [r \in Reqs |-> << >>]
  /\ health = ""
  /\ spfOut = [r \in Reqs |-> ""]
  /\ pre = [r \in Reqs |-> ""]
  /\ writes = [r \in Reqs |-> 0]
  /\ nChanges = 0
  /\ nSwitched = 0
  /\ issued = 0
  /\ log = << >>

(* detect_human_presence, up to the call to SeCF: the request is received, *)
(* the policy is checked, and the request is either refused with 403 or    *)
(* forwarded.                                                              *)
detect_human_presence(r) ==
  /\ edgePc[r] = "idle"
  /\ secfPc[r] = "none"
  /\ \A q \in Reqs : q < r => edgePc[q] # "idle" \/ secfPc[q] # "none"
  /\ issued < MaxIssued
  /\ \E c \in Clients, a \in Areas, n \in 1..MaxSamples, m \in Modes :
       /\ req' = [req EXCEPT ![r] = [clientId |-> c, areaId |-> a]]
       /\ IF EdgeAdmits(allowed, c, a)
          THEN /\ edgePc' = [edgePc EXCEPT ![r] = "wait"]
               /\ payload' = [payload EXCEPT ![r] =
                                [areaId |-> a, numSamples |-> n, suMode |-> m]]
               /\ secfPc' = [secfPc EXCEPT ![r] = "raf"]
               /\ hops' = [hops EXCEPT ![r] = << "check", "secf" >>]
               /\ UNCHANGED edgeResp
          ELSE /\ edgePc' = [edgePc EXCEPT ![r] = "done"]
               /\ edgeResp' = [edgeResp EXCEPT ![r] =
                                 Failure(403, "PermissionError")]
               /\ hops' = [hops EXCEPT ![r] = << "check" >>]
               /\ UNCHANGED << secfPc, payload >>
  /\ issued' = issued + 1
  /\ UNCHANGED << CURRENT_TOPOLOGY, allowed, SUS_CONFIG, health, suCalls, frames, results,
                  snap, topology_switched, secfResp, spfOut, pre, writes,
                  nChanges, nSwitched, log >>

(* handle_sensing_request, step 1: ask RAF for the CSI frames.  The whole  *)
(* of RAF's get_measurements runs inside the call; raf_payload is not used *)
(* after it.                                                               *)
SecfCallRaf(r) ==
  /\ secfPc[r] = "raf"
  /\ \E down \in SUBSET UnitIds(SUS_CONFIG) :
       LET out == get_measurements(SUS_CONFIG, payload[r].areaId,
                                   payload[r].suMode, payload[r].numSamples,
                                   down)
           called == [i \in 1..Len(out.called) |->
                        IF out.called[i].ok THEN "su" ELSE "su-failed"]
       IN  /\ hops' = [hops EXCEPT ![r] = @ \o << "raf" >> \o called]
           /\ suCalls' = [suCalls EXCEPT ![r] = out.called]
           /\ IF ~RafFailed(out.status)
              THEN /\ frames' = [frames EXCEPT ![r] = out.frames]
                   /\ secfPc' = [secfPc EXCEPT ![r] = "spf"]
                   /\ UNCHANGED secfResp
              ELSE /\ secfResp' = [secfResp EXCEPT ![r] =
                        Failure(500, IF out.status = 404
                                     THEN "RAF error: 404"
                                     ELSE "RAF error: 500")]
                   /\ secfPc' = [secfPc EXCEPT ![r] = "done"]
                   /\ UNCHANGED frames
  /\ payload' = [payload EXCEPT ![r] = NoPayload]
  /\ UNCHANGED << CURRENT_TOPOLOGY, allowed, SUS_CONFIG, health, req, edgePc, results,
                  snap, topology_switched, edgeResp, spfOut, pre, writes,
                  nChanges, nSwitched, issued, log >>

(* handle_sensing_request, step 2 and the start of step 3: send the frames *)
(* to SPF, read the results, refuse an empty list, compute avg_unc.  The   *)
(* response body either carries process_csi's results, or the call raises, *)
(* or the body holds no results (.get("results", []) yields []).  When SPF *)
(* stays silent the call raises at its timeout; a call that never returned *)
(* would leave the handler blocked.                                        *)
SecfCallSpf(r) ==
  /\ secfPc[r] = "spf"
  /\ \E outcome \in {"ok", "fail", "empty", "silent"} :
     \E unc \in [1..(IF outcome = "ok" THEN Len(frames[r]) ELSE 0)
                   -> Uncertainties] :
       LET spf_results == IF outcome = "ok"
                          THEN process_csi(frames[r], unc)
                          ELSE << >>
       IN  /\ hops' = [hops EXCEPT ![r] = Append(@, "spf")]
           /\ spfOut' = [spfOut EXCEPT ![r] =
                           IF outcome = "fail" THEN "error"
                           ELSE IF outcome = "silent" THEN "timeout"
                           ELSE IF spf_results = << >> THEN "empty"
                           ELSE "results"]
           /\ IF ~CallReturns(outcome # "silent", TIMEOUT_SPF)
              THEN /\ secfPc' = [secfPc EXCEPT ![r] = "hung"]
                   /\ UNCHANGED << secfResp, results, pre >>
              ELSE IF outcome \in {"fail", "silent"}
              THEN /\ secfResp' = [secfResp EXCEPT ![r] =
                                     Failure(500, "SPF error")]
                   /\ secfPc' = [secfPc EXCEPT ![r] = "done"]
                   /\ UNCHANGED << results, pre >>
              ELSE IF NoResults(spf_results)
              THEN /\ secfResp' = [secfResp EXCEPT ![r] =
                                     Failure(500, "No SPF results")]
                   /\ secfPc' = [secfPc EXCEPT ![r] = "done"]
                   /\ UNCHANGED << results, pre >>
              ELSE /\ results' = [results EXCEPT ![r] = spf_results]
                   /\ pre' = [pre EXCEPT ![r] = CURRENT_TOPOLOGY]
                   /\ secfPc' = [secfPc EXCEPT ![r] = "decide"]
                   /\ UNCHANGED secfResp
  /\ UNCHANGED << CURRENT_TOPOLOGY, allowed, SUS_CONFIG, health, suCalls, req, payload, edgePc,
                  frames,
                  snap, topology_switched, edgeResp, writes, nChanges,
                  nSwitched, issued, log >>

(* handle_sensing_request, step 3: the test of the rule.  The global is    *)
(* read once, in the branch avg_unc selects.                               *)
SecfReadTopology(r) ==
  /\ secfPc[r] = "decide"
  /\ snap' = [snap EXCEPT ![r] = CURRENT_TOPOLOGY]
  /\ topology_switched' = [topology_switched EXCEPT ![r] = FALSE]
  /\ secfPc' = [secfPc EXCEPT ![r] =
       IF NeedsSwitch(CURRENT_TOPOLOGY, Avg(results[r]))
       THEN "write" ELSE "respond"]
  /\ hops' = [hops EXCEPT ![r] = Append(@, "decide")]
  /\ UNCHANGED << CURRENT_TOPOLOGY, allowed, SUS_CONFIG, health, suCalls, req, payload, edgePc,
                  frames,
                  results, secfResp, edgeResp, spfOut, pre, writes,
                  nChanges, nSwitched, issued, log >>

SecfWriteTopology_noflag(r) ==
  /\ secfPc[r] = "write"
  /\ CURRENT_TOPOLOGY' = TargetTopology(Avg(results[r]))
  /\ writes' = [writes EXCEPT ![r] = @ + 1]
  /\ nChanges' = IF CURRENT_TOPOLOGY' # CURRENT_TOPOLOGY
                 THEN nChanges + 1 ELSE nChanges
  /\ secfPc' = [secfPc EXCEPT ![r] = "respond"]
  /\ UNCHANGED << allowed, SUS_CONFIG, health, suCalls, req, payload, edgePc, frames, results,
                  snap, topology_switched, secfResp, edgeResp, hops, spfOut,
                  pre, nSwitched, issued, log >>

(* handle_sensing_request, step 3: the assignment to the global and to     *)
(* topology_switched in the branch taken.                                  *)
SecfWriteTopology(r) ==
  /\ secfPc[r] = "write"
  /\ CURRENT_TOPOLOGY' = TargetTopology(Avg(results[r]))
  /\ topology_switched' = [topology_switched EXCEPT ![r] = TRUE]
  /\ writes' = [writes EXCEPT ![r] = @ + 1]
  /\ nChanges' = IF CURRENT_TOPOLOGY' # CURRENT_TOPOLOGY
                 THEN nChanges + 1 ELSE nChanges
  /\ secfPc' = [secfPc EXCEPT ![r] = "respond"]
  /\ UNCHANGED << allowed, SUS_CONFIG, health, suCalls, req, payload, edgePc,
                  frames, results, snap,
                  secfResp, edgeResp, hops, spfOut, pre, nSwitched, issued,
                  log >>

(* handle_sensing_request: the response is built, reading the global again.*)
SecfRespond(r) ==
  /\ secfPc[r] = "respond"
  /\ secfResp' = [secfResp EXCEPT ![r] =
       [status |-> 200, detail |-> "",
        topologySwitched |-> topology_switched[r],
        currentTopology |-> CURRENT_TOPOLOGY,
        results |-> results[r]]]
  /\ nSwitched' = IF topology_switched[r] THEN nSwitched + 1 ELSE nSwitched
  /\ log' = Append(log, [avg_unc |-> Avg(results[r]),
                         pre |-> pre[r],
                         switched |-> topology_switched[r],
                         topology |-> CURRENT_TOPOLOGY])
  /\ secfPc' = [secfPc EXCEPT ![r] = "done"]
  /\ UNCHANGED << CURRENT_TOPOLOGY, allowed, SUS_CONFIG, health, suCalls, req, payload, edgePc,
                  frames,
                  results, snap, topology_switched, edgeResp, hops, spfOut,
                  pre, writes, nChanges, issued >>

(* detect_human_presence, after the call to SeCF returned: a failure       *)
(* becomes 500, a success is shaped into the client-facing response.       *)
EdgeReturn(r) ==
  /\ edgePc[r] = "wait"
  /\ secfPc[r] = "done"
  /\ edgeResp' = [edgeResp EXCEPT ![r] =
       IF secfResp[r].status # 200
       THEN Failure(500, "SeCF error")
       ELSE [status |-> 200, detail |-> "",
             topologySwitched |-> secfResp[r].topologySwitched,
             currentTopology |-> secfResp[r].currentTopology,
             results |-> secfResp[r].results]]
  /\ edgePc' = [edgePc EXCEPT ![r] = "done"]
  /\ UNCHANGED << CURRENT_TOPOLOGY, allowed, SUS_CONFIG, health, suCalls, req, payload, secfPc,
                  frames,
                  results, snap, topology_switched, secfResp, hops, spfOut,
                  pre, writes, nChanges, nSwitched, issued, log >>

(* detect_human_presence: the call to SeCF (timeout=20) raises before SeCF *)
(* has answered; SeCF's own handler keeps running.                         *)
EdgeTimeout(r) ==
  /\ edgePc[r] = "wait"
  /\ secfPc[r] # "done"
  /\ CallReturns(FALSE, TIMEOUT_SECF)
  /\ edgeResp' = [edgeResp EXCEPT ![r] = Failure(500, "SeCF error")]
  /\ edgePc' = [edgePc EXCEPT ![r] = "done"]
  /\ UNCHANGED << CURRENT_TOPOLOGY, allowed, SUS_CONFIG, health, suCalls, req, payload, secfPc,
                  frames,
                  results, snap, topology_switched, secfResp, hops, spfOut,
                  pre, writes, nChanges, nSwitched, issued, log >>

(* The client has its answer and both handlers have returned: the request  *)
(* is over, its locals are gone and its slot serves the next request.      *)
Retire(r) ==
  /\ edgePc[r] = "done"
  /\ secfPc[r] \in {"none", "done"}
  /\ req' = [req EXCEPT ![r] = NoReq]
  /\ UNCHANGED payload
  /\ edgePc' = [edgePc EXCEPT ![r] = "idle"]
  /\ secfPc' = [secfPc EXCEPT ![r] = "none"]
  /\ frames' = [frames EXCEPT ![r] = << >>]
  /\ results' = [results EXCEPT ![r] = << >>]
  /\ snap' = [snap EXCEPT ![r] = ""]
  /\ topology_switched' = [topology_switched EXCEPT ![r] = FALSE]
  /\ secfResp' = [secfResp EXCEPT ![r] = NoResp]
  /\ edgeResp' = [edgeResp EXCEPT ![r] = NoResp]
  /\ hops' = [hops EXCEPT ![r] = << >>]
  /\ suCalls' = [suCalls EXCEPT ![r] = << >>]
  /\ spfOut' = [spfOut EXCEPT ![r] = ""]
  /\ pre' = [pre EXCEPT ![r] = ""]
  /\ writes' = [writes EXCEPT ![r] = 0]
  /\ UNCHANGED << CURRENT_TOPOLOGY, allowed, SUS_CONFIG, health, nChanges, nSwitched,
                  issued, log >>

healthcheck_reset ==
  /\ health = ""
  /\ CURRENT_TOPOLOGY' = "monostatic"
  /\ health' = "monostatic"
  /\ UNCHANGED << allowed, SUS_CONFIG, suCalls, req, payload, edgePc, secfPc,
                  frames, results, snap, topology_switched, secfResp,
                  edgeResp, hops, spfOut, pre, writes, nChanges, nSwitched,
                  issued, log >>

(* healthcheck (GET /healthz of SeCF): the response is built from the      *)
(* global, which is only read.  One probe is outstanding at a time.        *)
healthcheck ==
  /\ health = ""
  /\ health' = CURRENT_TOPOLOGY
  /\ UNCHANGED << CURRENT_TOPOLOGY, allowed, SUS_CONFIG, suCalls, req, payload,
                  edgePc, secfPc, frames, results, snap, topology_switched,
                  secfResp, edgeResp, hops, spfOut, pre, writes, nChanges,
                  nSwitched, issued, log >>

(* healthcheck returns: the response is sent and nothing of it is kept.    *)
healthcheck_return ==
  /\ health # ""
  /\ health' = ""
  /\ UNCHANGED << CURRENT_TOPOLOGY, allowed, SUS_CONFIG, suCalls, req, payload,
                  edgePc, secfPc, frames, results, snap, topology_switched,
                  secfResp, edgeResp, hops, spfOut, pre, writes, nChanges,
                  nSwitched, issued, log >>

Next ==
  \/ healthcheck
  \/ healthcheck_return
  \/ \E r \in Reqs :
    \/ detect_human_presence(r)
    \/ SecfCallRaf(r)
    \/ SecfCallSpf(r)
    \/ SecfReadTopology(r)
    \/ SecfWriteTopology(r)
    \/ SecfRespond(r)
    \/ EdgeReturn(r)
    \/ EdgeTimeout(r)

Spec == Init /\ [][Next]_vars

(* Sequential clients: a request or a probe is sent only when no other     *)
(* request or probe is in flight anywhere in the chain.                    *)
Quiescent ==
  /\ \A r \in Reqs : edgePc[r] = "idle" /\ secfPc[r] = "none"
  /\ health = ""

SeqProbe == Quiescent /\ healthcheck

SeqRequest(r) == Quiescent /\ detect_human_presence(r)

NextSeq ==
  \/ SeqProbe
  \/ healthcheck_return
  \/ \E r \in Reqs :
    \/ SeqRequest(r)
    \/ SecfCallRaf(r)
    \/ SecfCallSpf(r)
    \/ SecfReadTopology(r)
    \/ SecfWriteTopology(r)
    \/ SecfRespond(r)
    \/ EdgeReturn(r)
    \/ EdgeTimeout(r)
    \/ Retire(r)

SpecSeq == Init /\ [][NextSeq]_vars

(* Every handler runs on a worker thread of its service and every call it  *)
(* waits in returns or raises: a step of a handler that can be taken is    *)
(* taken.  Clients are not obliged to send requests.                       *)
Fairness ==
  \A r \in Reqs :
    /\ WF_vars(SecfCallRaf(r))
    /\ WF_vars(SecfCallSpf(r))
    /\ WF_vars(SecfReadTopology(r))
    /\ WF_vars(SecfWriteTopology(r))
    /\ WF_vars(SecfRespond(r))
    /\ WF_vars(EdgeReturn(r) \/ EdgeTimeout(r))

(* The registry as raf_service.py ships it.                                *)
InitShipped == Init /\ SUS_CONFIG = ShippedConfig

SpecLive == InitShipped /\ [][NextSeq]_vars /\ Fairness

(* ------------------------------ properties ----------------------------- *)

(* The state the last answered decision left; with sequential clients this *)
(* is the state a request finds when it arrives.                           *)
LastTopology ==
  IF log = << >> THEN "monostatic" ELSE log[Len(log)].topology

MeanIs(e, v) == e.avg_unc.num = v * e.avg_unc.den
MeanAbove(e, v) == e.avg_unc.num > v * e.avg_unc.den

(* C1: with sequential requests, every decision follows the threshold      *)
(* rule: mean > 40 from a state other than multistatic switches to         *)
(* multistatic and reports topologySwitched; mean <= 40 from a state other *)
(* than monostatic switches to monostatic and reports topologySwitched;    *)
(* otherwise the state stays and topologySwitched is false.  From          *)
(* monostatic, the means 55, 55, 10 give (true, multistatic), (false,      *)
(* multistatic), (true, monostatic).                                       *)
C1_TopologyDecisionStep ==
  /\ \A i \in 1..Len(log) :
       LET e == log[i]
       IN  IF MeanAbove(e, 40) /\ e.pre # "multistatic"
           THEN e.switched /\ e.topology = "multistatic"
           ELSE IF ~MeanAbove(e, 40) /\ e.pre # "monostatic"
           THEN e.switched /\ e.topology = "monostatic"
           ELSE ~e.switched /\ e.topology = e.pre
  /\ (Len(log) >= 1 /\ log[1].pre = "monostatic" /\ MeanIs(log[1], 55))
       => /\ log[1].switched /\ log[1].topology = "multistatic"
          /\ (Len(log) >= 2 /\ MeanIs(log[2], 55))
               => /\ ~log[2].switched /\ log[2].topology = "multistatic"
                  /\ (Len(log) >= 3 /\ MeanIs(log[3], 10))
                       => log[3].switched /\ log[3].topology = "monostatic"

C1_Witness ==
  /\ Len(log) = 3
  /\ log[1].pre = "monostatic"
  /\ MeanIs(log[1], 55) /\ MeanIs(log[2], 55) /\ MeanIs(log[3], 10)
  /\ log[3].switched
  /\ CURRENT_TOPOLOGY = "monostatic"

(* C2: the number of responses that report topologySwitched never exceeds  *)
(* the number of changes of the topology state, and the state is always    *)
(* one of the two topologies.                                              *)
C2_AtomicDecideAndWrite ==
  /\ nSwitched <= nChanges
  /\ CURRENT_TOPOLOGY \in {"monostatic", "multistatic"}

(* C3: a request about to write the topology state evaluated the rule      *)
(* against the value the state still holds, and no other request is        *)
(* between its own read and write.                                         *)
C3_NoStaleSnapshot ==
  \A r \in Reqs :
    secfPc[r] = "write"
      => /\ snap[r] = CURRENT_TOPOLOGY
         /\ \A q \in Reqs : q # r => secfPc[q] # "write"

GrantRelation ==
  { << "client-A", "room-101" >>, << "client-B", "room-101" >>,
    << "client-B", "room-102" >> }

Received(r) == edgePc[r] # "idle"
Granted(r) == << req[r].clientId, req[r].areaId >> \in GrantRelation

(* C4: a received request is refused by the policy exactly when its        *)
(* (client, area) pair is not in the grant relation, and the relation      *)
(* held by the authorization service never changes.                        *)
C4_DenyByDefault ==
  /\ \A r \in Reqs :
       Received(r) =>
         /\ ~Granted(r) => edgePc[r] = "done" /\ edgeResp[r].status = 403
         /\ Granted(r) => edgeResp[r].status # 403 /\ secfPc[r] # "none"
  /\ DOMAIN allowed = {"client-A", "client-B"}
  /\ \A c \in DOMAIN allowed :
       allowed[c] = {a \in Areas : << c, a >> \in GrantRelation}

C4_Witness ==
  \E r \in Reqs :
    /\ req[r].clientId = "client-A" /\ req[r].areaId = "room-102"
    /\ edgeResp[r].status = 403

(* C5: a request the policy denies is answered 403 by the edge, no call to *)
(* SeCF, RAF, a unit or SPF is made for it, it never writes the topology   *)
(* state, and the state is the one the request found.                      *)
C5_DeniedStopsAtEdge ==
  \A r \in Reqs :
    (Received(r) /\ ~Granted(r)) =>
      /\ edgePc[r] = "done"
      /\ edgeResp[r] = Failure(403, "PermissionError")
      /\ hops[r] = << "check" >>
      /\ secfPc[r] = "none"
      /\ writes[r] = 0
      /\ CURRENT_TOPOLOGY = LastTopology

C5_Witness ==
  /\ \E r \in Reqs :
       /\ req[r].clientId = "client-X"
       /\ edgeResp[r].status = 403
  /\ CURRENT_TOPOLOGY = "multistatic"

Uncovered(r) ==
  \A i \in 1..Len(SUS_CONFIG) : SUS_CONFIG[i].areaId # req[r].areaId

(* C6: once RAF was asked about an area with no registered unit, the       *)
(* aggregation has failed with 404 (no coverage), SeCF has answered 500,   *)
(* no unit and no SPF call was made, the rule was never evaluated, the     *)
(* request wrote nothing and the topology state is the one it found; the   *)
(* edge answers 500.                                                       *)
C6_NoCoverageFails ==
  \A r \in Reqs :
    (Uncovered(r) /\ secfPc[r] \notin {"none", "raf"}) =>
      /\ secfPc[r] = "done"
      /\ secfResp[r] = Failure(500, "RAF error: 404")
      /\ hops[r] = << "check", "secf", "raf" >>
      /\ pre[r] = "" /\ snap[r] = "" /\ ~topology_switched[r]
      /\ writes[r] = 0
      /\ CURRENT_TOPOLOGY = LastTopology
      /\ edgePc[r] = "done" => edgeResp[r] = Failure(500, "SeCF error")

C6_Witness ==
  \E r \in Reqs :
    /\ Uncovered(r)
    /\ secfResp[r].detail = "RAF error: 404"
    /\ edgePc[r] = "done" /\ edgeResp[r].status = 500
    /\ CURRENT_TOPOLOGY = "multistatic"

SameSide(i, j) ==
  \A k \in i..j : MeanAbove(log[k], 40) = MeanAbove(log[i], 40)

(* C7: with sequential requests, in any run of consecutive decisions whose *)
(* means lie on the same side of 40, every decision after the first        *)
(* reports topologySwitched = false and leaves the state as the first left *)
(* it.                                                                     *)
C7_Idempotence ==
  \A i \in 1..Len(log) : \A j \in 1..Len(log) :
    (i < j /\ SameSide(i, j)) =>
      /\ ~log[j].switched
      /\ log[j].topology = log[i].topology
      /\ log[j].pre = log[i].topology

C7_Witness ==
  /\ Len(log) = 3
  /\ SameSide(1, 3)
  /\ log[1].switched
  /\ ~log[3].switched

(* C8: with sequential requests, a mean of exactly 40 never leaves the     *)
(* state multistatic: from monostatic nothing is switched, from            *)
(* multistatic the state switches back to monostatic.                      *)
C8_BoundaryIsMonostatic ==
  \A i \in 1..Len(log) :
    MeanIs(log[i], 40) =>
      /\ log[i].topology = "monostatic"
      /\ log[i].pre = "monostatic" => ~log[i].switched
      /\ log[i].pre = "multistatic" => log[i].switched

C8_Witness ==
  \E i \in 1..Len(log) :
    /\ MeanIs(log[i], 40)
    /\ log[i].pre = "multistatic"
    /\ log[i].switched
    /\ CURRENT_TOPOLOGY = "monostatic"

(* C9: when SPF gives no results, SeCF answers 500 "No SPF results", no    *)
(* mean is computed, the rule is not evaluated, the request writes nothing *)
(* and the topology state is the one the request found.                    *)
C9_EmptyResultsIsError ==
  \A r \in Reqs :
    spfOut[r] = "empty" =>
      /\ secfPc[r] = "done"
      /\ secfResp[r] = Failure(500, "No SPF results")
      /\ results[r] = << >>
      /\ pre[r] = "" /\ snap[r] = "" /\ ~topology_switched[r]
      /\ writes[r] = 0
      /\ CURRENT_TOPOLOGY = LastTopology
      /\ edgePc[r] = "done" => edgeResp[r] = Failure(500, "SeCF error")

C9_Witness ==
  \E r \in Reqs :
    /\ spfOut[r] = "empty"
    /\ frames[r] # << >>
    /\ edgePc[r] = "done" /\ edgeResp[r].status = 500
    /\ CURRENT_TOPOLOGY = "multistatic"

CoveringIdx(a) == {i \in 1..Len(SUS_CONFIG) : SUS_CONFIG[i].areaId = a}
UnitPos(id) == CHOOSE i \in 1..Len(SUS_CONFIG) : SUS_CONFIG[i].suId = id

InAggregationOrder(fs, a, n) ==
  /\ Len(fs) = Cardinality(CoveringIdx(a)) * n
  /\ \A p \in 1..Len(fs) : \A q \in 1..Len(fs) :
       p < q => \/ UnitPos(fs[p].suId) < UnitPos(fs[q].suId)
                \/ fs[p].suId = fs[q].suId /\ fs[p].seq < fs[q].seq
  /\ \A i \in CoveringIdx(a) : \A k \in 1..n :
       \E p \in 1..Len(fs) : fs[p] = [suId |-> SUS_CONFIG[i].suId, seq |-> k]

(* C10: the batch a successful aggregation hands back holds exactly        *)
(* numSamples frames of every unit registered for the area, units in       *)
(* registration order and each unit's frames in generation order; for two  *)
(* units with two frames each it is [A1, A2, B1, B2].                      *)
C10_AggregationOrder ==
  [][\A r \in Reqs :
       (secfPc[r] = "raf" /\ secfPc'[r] = "spf") =>
         /\ InAggregationOrder(frames'[r], payload[r].areaId,
                               payload[r].numSamples)
         /\ (SUS_CONFIG = ExtendedConfig /\ payload[r].areaId = "room-101"
               /\ payload[r].numSamples = 2)
              => frames'[r] = << [suId |-> "SU-1", seq |-> 1],
                                 [suId |-> "SU-1", seq |-> 2],
                                 [suId |-> "SU-3", seq |-> 1],
                                 [suId |-> "SU-3", seq |-> 2] >>]_vars

C10_Witness ==
  \E r \in Reqs :
    /\ secfPc[r] = "spf"
    /\ Len(frames[r]) = 4
    /\ frames[r][1].suId = "SU-1" /\ frames[r][4].suId = "SU-3"

UnitFailed(r) == \E i \in 1..Len(suCalls[r]) : ~suCalls[r][i].ok
SpfCalled(r) == "spf" \in Range(hops[r])

ModeChecked(r) == "capabilities" \in Range(hops[r])

(* C12: a unit measurement call is made for a request only after the       *)
(* request's mode was checked against the modes the covering units         *)
(* declare.                                                                *)
C12_ModeValidationPrecedesDispatch ==
  \A r \in Reqs : suCalls[r] # << >> => ModeChecked(r)

(* What made a request fail, from the history of its calls.                *)
ErrorKind(r) ==
  IF edgeResp[r].status = 403 THEN "PolicyDenied"
  ELSE IF secfResp[r].detail = "RAF error: 404" THEN "NoCoverage"
  ELSE IF secfResp[r].detail = "RAF error: 500" THEN "UnitUnavailable"
  ELSE IF secfResp[r].detail = "SPF error" THEN "InferenceUnavailable"
  ELSE IF secfResp[r].detail = "No SPF results" THEN "NoResults"
  ELSE ""

EdgeFailed(r) == edgePc[r] = "done" /\ edgeResp[r].status # 200

(* C13: two requests that failed for different reasons (policy denial, no  *)
(* coverage, unit unavailable, inference unavailable, no results) are      *)
(* answered differently by the edge.                                       *)
C13_DistinctErrorKinds ==
  \A r \in Reqs : \A q \in Reqs :
    ( /\ EdgeFailed(r) /\ EdgeFailed(q)
      /\ ErrorKind(r) # "" /\ ErrorKind(q) # ""
      /\ ErrorKind(r) # ErrorKind(q) )
      => edgeResp[r] # edgeResp[q]

OnePerFrame(rs, fs) ==
  /\ Len(rs) = Len(fs)
  /\ \A i \in 1..Len(fs) : rs[i].of = fs[i]

(* C14: with sequential requests, a response of the edge is either         *)
(* complete or a failure with nothing in it: a success carries exactly one *)
(* result per frame of the batch RAF returned, in batch order, together    *)
(* with the currentTopology the rule gives for this request's mean and the *)
(* topologySwitched of this request's decision; a failure carries no       *)
(* result and no topology.  A request for an area with one unit that finds *)
(* the state monostatic and whose mean is at most 40 is answered           *)
(* topologySwitched = false, currentTopology = monostatic.                 *)
C14_NoPartialResponses ==
  [](
    \A r \in Reqs :
      edgePc[r] = "done" =>
        IF edgeResp[r].status = 200
        THEN LET target == TargetTopology(Avg(results[r]))
             IN  /\ frames[r] # << >>
                 /\ OnePerFrame(edgeResp[r].results, frames[r])
                 /\ edgeResp[r].currentTopology = target
                 /\ edgeResp[r].topologySwitched = (pre[r] # target)
                 /\ edgeResp[r].topologySwitched = topology_switched[r]
                 /\ ( /\ Cardinality(CoveringIdx(req[r].areaId)) = 1
                      /\ pre[r] = "monostatic"
                      /\ target = "monostatic" )
                      => /\ ~edgeResp[r].topologySwitched
                         /\ edgeResp[r].currentTopology = "monostatic"
        ELSE /\ edgeResp[r].results = << >>
             /\ edgeResp[r].currentTopology = ""
             /\ ~edgeResp[r].topologySwitched
    )

C14_Witness ==
  \E r \in Reqs :
    /\ req[r] = [clientId |-> "client-A", areaId |-> "room-101"]
    /\ SUS_CONFIG = ShippedConfig
    /\ pre[r] = "monostatic"
    /\ edgeResp[r].status = 200
    /\ Len(edgeResp[r].results) = MaxSamples
    /\ ~edgeResp[r].topologySwitched
    /\ edgeResp[r].currentTopology = "monostatic"

Rank(h) ==
  CASE h = "check" -> 1
    [] h = "secf" -> 2
    [] h = "raf" -> 3
    [] h \in {"su", "su-failed"} -> 4
    [] h = "spf" -> 5
    [] h = "decide" -> 6

LastHop(r) == hops[r][Len(hops[r])]

(* C16: the hops made for a request are the access check, the call to      *)
(* SeCF, the aggregation with one call per covering unit, the inference    *)
(* and the decision, in this order and with none skipped (each hop is the  *)
(* successor of the hop before it, or one more unit call); no unit is      *)
(* called twice and RAF and SPF are called at most once; and the hop that  *)
(* failed is the last hop made for the request.                            *)
C16_FailFastNoRetries ==
  [](
    \A r \in Reqs :
      /\ hops[r] # << >> => hops[r][1] = "check"
      /\ \A i \in 1..(Len(hops[r]) - 1) :
           \/ Rank(hops[r][i + 1]) = Rank(hops[r][i]) + 1
           \/ Rank(hops[r][i + 1]) = 4 /\ Rank(hops[r][i]) = 4
      /\ \A i \in 1..Len(suCalls[r]) : \A j \in 1..Len(suCalls[r]) :
           i < j => suCalls[r][i].suId # suCalls[r][j].suId
      /\ edgeResp[r].status = 403 => hops[r] = << "check" >>
      /\ secfResp[r].detail = "RAF error: 404" => LastHop(r) = "raf"
      /\ \A i \in 1..Len(hops[r]) :
           hops[r][i] = "su-failed" => i = Len(hops[r])
      /\ spfOut[r] \in {"error", "timeout", "empty"} => LastHop(r) = "spf"
      /\ "decide" \in Range(hops[r]) => spfOut[r] = "results"
    )

C16_Witness ==
  \E r \in Reqs :
    /\ hops[r] = << "check", "secf", "raf", "su", "su", "spf" >>
    /\ spfOut[r] = "error"
    /\ edgePc[r] = "done" /\ edgeResp[r].status = 500

DecisionWrite(r) ==
  /\ secfPc[r] = "write" /\ secfPc'[r] = "respond"
  /\ results[r] # << >> /\ spfOut[r] = "results"
  /\ "decide" \in Range(hops[r])
  /\ writes'[r] = writes[r] + 1

(* C17: the topology state starts monostatic and is always monostatic or   *)
(* multistatic; every change of it is the write of the decision step of a  *)
(* request that obtained a non-empty list of results; a request SeCF       *)
(* answered with a failure has written nothing, and a health probe leaves  *)
(* the state as it is and reports it.                                      *)
C17_TopologyStateInvariant ==
  /\ CURRENT_TOPOLOGY = "monostatic"
  /\ [](CURRENT_TOPOLOGY \in {"monostatic", "multistatic"})
  /\ [](\A r \in Reqs :
          (secfPc[r] = "done" /\ secfResp[r].status # 200) => writes[r] = 0)
  /\ [][ /\ CURRENT_TOPOLOGY' # CURRENT_TOPOLOGY
            => \E r \in Reqs : DecisionWrite(r)
         /\ health' # health
            => /\ CURRENT_TOPOLOGY' = CURRENT_TOPOLOGY
               /\ health' \in {"", CURRENT_TOPOLOGY} ]_vars

C17_Witness ==
  /\ health = "multistatic"
  /\ CURRENT_TOPOLOGY = "multistatic"
  /\ Len(log) = 1 /\ log[1].switched
  /\ issued = 2

(* C18: the currentTopology a response of SeCF reports is the topology the *)
(* rule gives for that request's own mean: multistatic exactly when the    *)
(* mean is above 40, whatever other requests did in between.               *)
C18_ResponseReportsOwnDecision ==
  \A r \in Reqs :
    secfResp[r].status = 200 =>
      secfResp[r].currentTopology = TargetTopology(Avg(results[r]))

(* C19: a request the edge has answered with a failure has not written the *)
(* topology state, neither before the answer nor after it.                 *)
C19_FailedRequestLeavesState ==
  \A r \in Reqs : EdgeFailed(r) => writes[r] = 0

(* C20: with sequential requests, the state a successful request leaves is *)
(* multistatic exactly when its mean is above 40, whatever state it found: *)
(* the state is the one the last answered decision asks for, and a         *)
(* decision whose mean lies on the other side of 40 than the mean of the   *)
(* decision before it reports topologySwitched.                            *)
C20_PostStateFromLastMean ==
  [](
    /\ \A i \in 1..Len(log) :
         (log[i].topology = "multistatic") = MeanAbove(log[i], 40)
    /\ (log # << >> /\ \A r \in Reqs : secfPc[r] \notin {"write", "respond"})
         => (CURRENT_TOPOLOGY = "multistatic") = MeanAbove(log[Len(log)], 40)
    /\ \A i \in 2..Len(log) :
         MeanAbove(log[i], 40) # MeanAbove(log[i - 1], 40)
           => /\ log[i].switched
              /\ log[i].topology # log[i - 1].topology
    )

C20_Witness ==
  /\ Len(log) = 3
  /\ MeanAbove(log[1], 40) /\ ~MeanAbove(log[2], 40) /\ MeanAbove(log[3], 40)
  /\ log[1].switched /\ log[2].switched /\ log[3].switched
  /\ CURRENT_TOPOLOGY = "multistatic"

====
